---- MODULE Spec2Model ----
(***************************************************************************)
(* Model of web/config.js: the script that defines the global runtime      *)
(* configuration record window.CONFIG = { API_BASE_URL: '...' } of the     *)
(* static site, together with the page around it (the other scripts of     *)
(* the page that read the field, set their own globals, or write to the    *)
(* record).                                                                *)
(*                                                                         *)
(* JavaScript values are tagged records [t, v]; a string's payload v is    *)
(* the sequence of its characters, so that URL syntax is computed from     *)
(* the characters.  An object is tagged "object" and carries its own       *)
(* properties in props; a property that the object does not have maps to   *)
(* Absent.                                                                 *)
(***************************************************************************)
EXTENDS Integers, Sequences, FiniteSets, TLC

VARIABLES window, loads, lastRead, prevRead, requests, op

vars == <<window, loads, lastRead, prevRead, requests, op>>

\* ---------------------------------------------------------------- bounds
MaxLoads == 2
MaxRequests == 2

\* ---------------------------------------------------------------- values
FieldNames == {"API_BASE_URL", "DEBUG"}
GlobalNames == {"CONFIG", "APP"}

Absent == [t |-> "absent", v |-> <<>>]
Undefined == [t |-> "undefined", v |-> <<>>]
Null == [t |-> "null", v |-> <<>>]
Str(s) == [t |-> "string", v |-> s]
Num(s) == [t |-> "number", v |-> s]

NoProps == [f \in FieldNames |-> Absent]
Prim(p) == [t |-> p.t, v |-> p.v, props |-> NoProps]
Obj(ps) == [t |-> "object", v |-> <<>>, props |-> ps]

\* The string literal of line 7, character by character.
API_BASE_URL_bare == <<"m","e","e","t","i","n","g","n","o","t","e","s",".",
                       "o","n","r","e","n","d","e","r",".","c","o","m">>
API_BASE_URL_slash == <<"h","t","t","p","s",":","/","/",
                        "m","e","e","t","i","n","g","n","o","t","e","s",".",
                        "o","n","r","e","n","d","e","r",".","c","o","m","/">>
API_BASE_URL == <<"h","t","t","p","s",":","/","/",
                  "m","e","e","t","i","n","g","n","o","t","e","s",".",
                  "o","n","r","e","n","d","e","r",".","c","o","m">>

\* The object literal of lines 5-8: exactly one own property.
ConfigLiteral_null == Obj([NoProps EXCEPT !["API_BASE_URL"] = Null])
ConfigLiteral == Obj([NoProps EXCEPT !["API_BASE_URL"] = Str(API_BASE_URL)])

\* Values other scripts of the page may hold or write.
LocalDev == <<"h","t","t","p",":","/","/","l","o","c","a","l","h","o","s","t",
              ":","5","0","0","0","/">>
PrimValues == {Str(<<>>), Str(LocalDev), Num(<<"4","2">>), Null, Undefined}
PriorConfigs ==
    { Prim(Undefined),
      Obj([NoProps EXCEPT !["DEBUG"] = Str(<<"1">>)]),
      Obj([NoProps EXCEPT !["API_BASE_URL"] = Str(LocalDev)]),
      Obj([NoProps EXCEPT !["API_BASE_URL"] = Num(<<"4","2">>),
                          !["DEBUG"] = Str(<<"1">>)]) }
AppValues == {Prim(Undefined), Prim(Str(<<"a","p","p">>)), Obj(NoProps)}

OwnFields(o) == {f \in FieldNames : o.props[f] # Absent}

\* ---------------------------------------------------------------- reads
\* Outcome of evaluating window.CONFIG.API_BASE_URL: a property read on
\* undefined or null throws a TypeError; a property the object does not
\* have reads as undefined.
NoRead == [ok |-> FALSE, val |-> Absent, at |-> -1]

get_api_base_url_slash(w) ==
    LET c == w["CONFIG"] IN
    IF c.t \in {"undefined", "null"} THEN [ok |-> FALSE, val |-> Undefined]
    ELSE IF c.props["API_BASE_URL"] = Absent THEN [ok |-> TRUE, val |-> Undefined]
    ELSE IF c.props["API_BASE_URL"].t = "string"
            /\ (Len(c.props["API_BASE_URL"].v) = 0
                \/ c.props["API_BASE_URL"].v[Len(c.props["API_BASE_URL"].v)] # "/")
         THEN [ok |-> TRUE, val |-> Str(Append(c.props["API_BASE_URL"].v, "/"))]
    ELSE [ok |-> TRUE, val |-> c.props["API_BASE_URL"]]

get_api_base_url(w) ==
    LET c == w["CONFIG"] IN
    IF c.t \in {"undefined", "null"} THEN [ok |-> FALSE, val |-> Undefined]
    ELSE IF c.props["API_BASE_URL"] = Absent THEN [ok |-> TRUE, val |-> Undefined]
    ELSE [ok |-> TRUE, val |-> c.props["API_BASE_URL"]]

\* ---------------------------------------------------------------- state
Init ==
    /\ window \in {[g \in GlobalNames |->
                      IF g = "CONFIG" THEN c ELSE Prim(Undefined)] : c \in PriorConfigs}
    /\ loads = 0
    /\ lastRead = NoRead
    /\ prevRead = NoRead
    /\ requests = 0
    /\ op = "init"

\* Executing config.js: one assignment to the global CONFIG.
LoadConfig_append ==
    /\ loads < MaxLoads
    /\ window' = [window EXCEPT !["CONFIG"] =
                    IF window["CONFIG"] = ConfigLiteral
                    THEN Obj([NoProps EXCEPT
                                !["API_BASE_URL"] = Str(Append(API_BASE_URL, "/"))])
                    ELSE ConfigLiteral]
    /\ loads' = loads + 1
    /\ op' = "load"
    /\ UNCHANGED <<lastRead, prevRead, requests>>

LoadConfig_keep ==
    /\ loads < MaxLoads
    /\ window' = [window EXCEPT !["CONFIG"] =
                    IF window["CONFIG"].t = "object" THEN window["CONFIG"]
                    ELSE ConfigLiteral]
    /\ loads' = loads + 1
    /\ op' = "load"
    /\ UNCHANGED <<lastRead, prevRead, requests>>

LoadConfig_merge ==
    /\ loads < MaxLoads
    /\ window' = [window EXCEPT !["CONFIG"] =
                    IF window["CONFIG"].t = "object"
                    THEN Obj([window["CONFIG"].props EXCEPT
                                !["API_BASE_URL"] = Str(API_BASE_URL)])
                    ELSE ConfigLiteral]
    /\ loads' = loads + 1
    /\ op' = "load"
    /\ UNCHANGED <<lastRead, prevRead, requests>>

LoadConfig_leak ==
    /\ loads < MaxLoads
    /\ window' = [g \in GlobalNames |-> ConfigLiteral]
    /\ loads' = loads + 1
    /\ op' = "load"
    /\ UNCHANGED <<lastRead, prevRead, requests>>

LoadConfig ==
    /\ loads < MaxLoads
    /\ window' = [window EXCEPT !["CONFIG"] = ConfigLiteral]
    /\ loads' = loads + 1
    /\ op' = "load"
    /\ UNCHANGED <<lastRead, prevRead, requests>>

\* A consumer reads window.CONFIG.API_BASE_URL.
Read ==
    /\ prevRead' = lastRead
    /\ lastRead' = [ok |-> get_api_base_url(window).ok,
                    val |-> get_api_base_url(window).val,
                    at |-> loads]
    /\ op' = "read"
    /\ UNCHANGED <<window, loads, requests>>

\* Another script of the page sets a global of its own.
SetOtherGlobal ==
    /\ \E a \in AppValues :
          /\ a # window["APP"]
          /\ window' = [window EXCEPT !["APP"] = a]
    /\ op' = "global"
    /\ UNCHANGED <<loads, lastRead, prevRead, requests>>

\* A consumer issues a request to the backend it has read.
Fetch ==
    /\ requests < MaxRequests
    /\ lastRead.ok
    /\ requests' = requests + 1
    /\ op' = "fetch"
    /\ UNCHANGED <<window, loads, lastRead, prevRead>>

\* Consumer writes: the record is an ordinary object and CONFIG an ordinary
\* global, so assignment, deletion and replacement all take effect.
AssignField ==
    /\ window["CONFIG"].t = "object"
    /\ \E p \in PrimValues :
          window' = [window EXCEPT !["CONFIG"] =
                       Obj([window["CONFIG"].props EXCEPT !["API_BASE_URL"] = p])]
    /\ op' = "assign"
    /\ UNCHANGED <<loads, lastRead, prevRead, requests>>

DeleteField ==
    /\ window["CONFIG"].t = "object"
    /\ window' = [window EXCEPT !["CONFIG"] =
                    Obj([window["CONFIG"].props EXCEPT !["API_BASE_URL"] = Absent])]
    /\ op' = "delete"
    /\ UNCHANGED <<loads, lastRead, prevRead, requests>>

ReplaceConfig ==
    /\ \E c \in PriorConfigs : window' = [window EXCEPT !["CONFIG"] = c]
    /\ op' = "replace"
    /\ UNCHANGED <<loads, lastRead, prevRead, requests>>

\* The page whose consumers keep to reading.
Next == LoadConfig \/ Read \/ SetOtherGlobal \/ Fetch

Spec == Init /\ [][Next]_vars

\* The page with consumers that also write.
NextWriters ==
    LoadConfig \/ Read \/ SetOtherGlobal \/ Fetch
    \/ AssignField \/ DeleteField \/ ReplaceConfig

SpecWriters == Init /\ [][NextWriters]_vars

\* ------------------------------------------------------------ URL syntax
\* Decomposition of a string into URL components after RFC 3986, appendix B:
\*   ^(([^:/?#]+):)?(//([^/?#]*))?([^?#]*)(\?([^#]*))?(#(.*))?
FirstIdx(s, cs, from) ==
    LET I == {i \in from..Len(s) : s[i] \in cs}
    IN  IF I = {} THEN Len(s) + 1 ELSE CHOOSE i \in I : \A j \in I : i <= j

ParseURL(s) ==
    LET colon == FirstIdx(s, {":"}, 1)
        delim == FirstIdx(s, {"/", "?", "#"}, 1)
        hasScheme == colon > 1 /\ colon <= Len(s) /\ colon < delim
        r == IF hasScheme THEN colon + 1 ELSE 1
        hasAuth == r + 1 <= Len(s) /\ s[r] = "/" /\ s[r + 1] = "/"
        authEnd == IF hasAuth THEN FirstIdx(s, {"/", "?", "#"}, r + 2) ELSE r
        portAt == IF hasAuth THEN FirstIdx(SubSeq(s, 1, authEnd - 1), {":"}, r + 2)
                  ELSE r
        pathEnd == FirstIdx(s, {"?", "#"}, authEnd)
    IN  [scheme |-> IF hasScheme THEN SubSeq(s, 1, colon - 1) ELSE <<>>,
         hasAuthority |-> hasAuth,
         host |-> IF hasAuth THEN SubSeq(s, r + 2, portAt - 1) ELSE <<>>,
         port |-> IF hasAuth THEN SubSeq(s, portAt + 1, authEnd - 1) ELSE <<>>,
         path |-> SubSeq(s, authEnd, pathEnd - 1)]

Digits == {"0","1","2","3","4","5","6","7","8","9"}
Letters == {"a","b","c","d","e","f","g","h","i","j","k","l","m",
            "n","o","p","q","r","s","t","u","v","w","x","y","z"}
HostChars == Letters \cup Digits \cup {".", "-"}
PathChars == Letters \cup Digits \cup {".", "-", "_", "~", "/"}

IsAbsoluteHttpURL(s) ==
    LET u == ParseURL(s) IN
    /\ u.scheme \in {<<"h","t","t","p">>, <<"h","t","t","p","s">>}
    /\ u.hasAuthority
    /\ Len(u.host) > 0
    /\ \A i \in 1..Len(u.host) : u.host[i] \in HostChars
    /\ \A i \in 1..Len(u.port) : u.port[i] \in Digits
    /\ \A i \in 1..Len(u.path) : u.path[i] \in PathChars
    /\ Len(u.scheme) + 3 + Len(u.host) + Len(u.path)
         + (IF Len(u.port) > 0 THEN 1 + Len(u.port) ELSE 0) = Len(s)

\* ---------------------------------------------------------------- claims
Loaded == loads > 0
Field == window["CONFIG"].props["API_BASE_URL"]
LoadStep == loads' = loads + 1
ConsumerWriteOps == {"assign", "delete", "replace"}

\* C1 (Presence): in every state after config.js has loaded, window.CONFIG
\* is an object and has an own property named API_BASE_URL.
C1_Presence ==
    Loaded => (window["CONFIG"].t = "object"
               /\ "API_BASE_URL" \in OwnFields(window["CONFIG"]))

C1_Witness ==
    /\ op = "load"
    /\ window["CONFIG"].t = "object"
    /\ "API_BASE_URL" \in OwnFields(window["CONFIG"])

\* C2 (Read-only, as stated): once config.js has loaded, no step of consumer
\* code (assignment to the field, deletion, replacement of the record)
\* changes the outcome a read of window.CONFIG.API_BASE_URL has.
C2_ReadOnly ==
    [][(Loaded /\ op' \in ConsumerWriteOps)
         => get_api_base_url(window') = get_api_base_url(window)]_vars

\* C2 (amended): once config.js has loaded, the outcome of a read changes
\* only through a write: a consumer's assignment, deletion or replacement,
\* or a further execution of config.js, which puts the literal back.  Reads,
\* writes to other globals and requests leave it as it is.
C2_ChangesOnlyByWrite ==
    [][Loaded =>
         \/ op' \in ConsumerWriteOps
         \/ (LoadStep /\ get_api_base_url(window')
                           = [ok |-> TRUE, val |-> Str(API_BASE_URL)])
         \/ get_api_base_url(window') = get_api_base_url(window)]_vars

C2_Witness ==
    /\ Loaded
    /\ op = "read"
    /\ lastRead.at > 0
    /\ lastRead.ok
    /\ lastRead.val = Str(LocalDev)

\* C3 (Stability): two reads made after config.js has loaded have the same
\* outcome, also when config.js was executed again between them.
C3_Stability ==
    (prevRead.at > 0 /\ lastRead.at > 0)
      => (lastRead.ok = prevRead.ok /\ lastRead.val = prevRead.val)

C3_Witness ==
    /\ prevRead.at = 1
    /\ lastRead.at = 2
    /\ lastRead.val = prevRead.val

\* C4 (Type invariant): in every state after config.js has loaded, the
\* value of API_BASE_URL is a string (not null, undefined or a number).
C4_TypeIsString ==
    Loaded => (get_api_base_url(window).ok
               /\ get_api_base_url(window).val.t = "string")

C4_Witness ==
    /\ Loaded
    /\ op = "read"
    /\ lastRead.at > 0
    /\ lastRead.val.t = "string"

\* C5 (Value invariant): in every state after config.js has loaded, the
\* value of API_BASE_URL is the empty string or a syntactically valid
\* absolute URL with scheme http or https.
C5_EmptyOrHttpURL ==
    Loaded => (Field.t = "string"
               /\ (Len(Field.v) = 0 \/ IsAbsoluteHttpURL(Field.v)))

C5_Witness ==
    /\ Loaded
    /\ Len(Field.v) > 0
    /\ ParseURL(Field.v).scheme = <<"h","t","t","p","s">>
    /\ ParseURL(Field.v).hasAuthority

\* C6 (Concrete deployment value): a read made after config.js has loaded
\* returns exactly 'https://meetingnotes.onrender.com', whose URL components
\* are scheme https, host meetingnotes.onrender.com and an empty path.
C6_DeploymentValue ==
    lastRead.at > 0 =>
      /\ lastRead.ok
      /\ lastRead.val.t = "string"
      /\ Len(lastRead.val.v) = 33
      /\ lastRead.val.v = <<"h","t","t","p","s",":","/","/">>
                            \o <<"m","e","e","t","i","n","g","n","o","t","e","s">>
                            \o <<".","o","n","r","e","n","d","e","r",".","c","o","m">>
      /\ ParseURL(lastRead.val.v).scheme = <<"h","t","t","p","s">>
      /\ ParseURL(lastRead.val.v).host
           = <<"m","e","e","t","i","n","g","n","o","t","e","s">>
               \o <<".","o","n","r","e","n","d","e","r",".","c","o","m">>
      /\ ParseURL(lastRead.val.v).port = <<>>
      /\ ParseURL(lastRead.val.v).path = <<>>

C6_Witness ==
    /\ op = "read"
    /\ lastRead.at > 0
    /\ lastRead.ok
    /\ ParseURL(lastRead.val.v).path = <<>>
    /\ Len(ParseURL(lastRead.val.v).host) = 25

\* C7 (Read never fails, no normalisation): a read made after config.js has
\* loaded succeeds and returns the stored value as it is, character for
\* character; no trailing slash is added or removed.
C7_ReadVerbatim ==
    lastRead.at > 0 =>
      /\ lastRead.ok
      /\ lastRead.val = Field
      /\ lastRead.val.v = API_BASE_URL

C7_Witness ==
    /\ op = "read"
    /\ lastRead.at > 0
    /\ lastRead.ok
    /\ lastRead.val.v[Len(lastRead.val.v)] # "/"

\* C8 (Frame effect of loading): a step that executes config.js changes the
\* global CONFIG only: every other global keeps its value, no request is
\* issued and no read outcome is touched.
C8_LoadFrame ==
    [][LoadStep =>
         /\ \A g \in GlobalNames \ {"CONFIG"} : window'[g] = window[g]
         /\ requests' = requests
         /\ lastRead' = lastRead
         /\ prevRead' = prevRead]_vars

C8_Witness ==
    /\ op = "load"
    /\ window["APP"] # Prim(Undefined)
    /\ window["CONFIG"] = ConfigLiteral

\* C9 (Overwrite, idempotent): a step that executes config.js leaves a
\* record with exactly one own property, API_BASE_URL, whatever CONFIG held
\* before, and executing config.js directly after an execution of it leaves
\* the record as that execution left it.
C9_OverwriteIdempotent ==
    [][LoadStep =>
         /\ window'["CONFIG"].t = "object"
         /\ OwnFields(window'["CONFIG"]) = {"API_BASE_URL"}
         /\ (op = "load" => window'["CONFIG"] = window["CONFIG"])]_vars

C9_Witness ==
    /\ op = "load"
    /\ loads = 2
    /\ OwnFields(window["CONFIG"]) = {"API_BASE_URL"}

====
